---- MODULE Spec2Model ----
(***************************************************************************)
(* Finance tracker backend (backend/main.py): the users and transactions   *)
(* tables, the JWT bearer authentication and the REST handlers, as a state *)
(* machine.  Requests are served by worker threads (FastAPI runs the sync  *)
(* handlers in a thread pool); a handler that reads and later commits is   *)
(* two steps, so that two requests can interleave between them.            *)
(*                                                                         *)
(* Time is in seconds.  Amounts are in thousandths of the currency unit,   *)
(* so that round(x, 2) is a real rounding to a multiple of 10.             *)
(***************************************************************************)
EXTENDS Integers, Sequences, FiniteSets, TLC

VARIABLES
    users,  \* rows of table "users"
    txs,    \* rows of table "transactions"
    stamp,  \* history: by transaction id, the instant it was added for
    now,    \* the UTC clock, seconds
    held,   \* the access token a client kept from a successful login
    pc,     \* per worker: where its handler stands
    loc,    \* per worker: the handler's local variables between two steps
    last    \* the most recent request answered, and its response

vars == <<users, txs, stamp, now, held, pc, loc, last>>

-----------------------------------------------------------------------------
(* Bounds of the model *)

\* transaction ids go up to this
MaxTx == 2
\* the clock stops after this many ticks
MaxTicks == 2

\* worker threads
Procs == {1, 2}

(* Inputs *)
Usernames == {"", "alice", "bob"}
RegPasswords == {"pw"}
LoginPasswords == {"pw", "bad"}

\* Python's None
None == "<None>"

-----------------------------------------------------------------------------
(* Config *)

SECRET_KEY == "change_this_secret_for_prod"
OTHER_KEY == "some_other_key"
ALGORITHM == "HS256"
ACCESS_TOKEN_EXPIRE_MINUTES == 60 * 24 * 7
\* timedelta(minutes=ACCESS_TOKEN_EXPIRE_MINUTES) in seconds
ExpireSeconds == ACCESS_TOKEN_EXPIRE_MINUTES * 60
\* IST = timezone(timedelta(hours=5, minutes=30)), its utcoffset in seconds
IST == (5 * 60 + 30) * 60
\* one tick of the clock: a token lifetime
TickSeconds == ExpireSeconds

-----------------------------------------------------------------------------
(* Tables *)

\* a row of table users
UserDB(id, username, hashed_password) ==
    [id |-> id, username |-> username, hashed_password |-> hashed_password]

NoUser == UserDB(0, None, None)

\* a row of table transactions; date is what SQLite's DateTime column keeps:
\* the wall-clock fields of the datetime, without its offset
TransactionDB(id, title, amount, type, category, date, owner_id) ==
    [id |-> id, title |-> title, amount |-> amount, type |-> type,
     category |-> category, date |-> date, owner_id |-> owner_id]

RECURSIVE SetMax(_)
SetMax(S) ==
    IF S = {} THEN 0
    ELSE LET x == CHOOSE y \in S : TRUE
             m == SetMax(S \ {x})
         IN IF x > m THEN x ELSE m

\* INTEGER PRIMARY KEY without AUTOINCREMENT: one more than the largest rowid
NextRowId(rows) == SetMax({r.id : r \in rows}) + 1

\* as UsernameUnique, the column declared without unique=True
UsernameUnique_Off(rows, username) == TRUE

\* the unique constraint (and index) on users.username
UsernameUnique(rows, username) == \A r \in rows : r.username # username

\* query(UserDB).filter(UserDB.username == username).first()
UserByName(username) ==
    LET hit == {r \in users : r.username = username}
    IN IF hit = {} THEN NoUser
       ELSE CHOOSE r \in hit : \A q \in hit : r.id <= q.id

-----------------------------------------------------------------------------
(* Security utils *)

\* pwd_context.hash: a one-way image of the password (the salt is left out)
get_password_hash(password) == <<"bcrypt", password>>

verify_password(plain, hashed) == hashed = <<"bcrypt", plain>>

\* a JWT: its claims and the key that signed it
NoToken == [sub |-> None, exp |-> 0, key |-> None]

jwt_encode(claims, key) == [sub |-> claims.sub, exp |-> claims.exp, key |-> key]

create_access_token(data) ==
    jwt_encode([sub |-> data.sub, exp |-> now + ExpireSeconds], SECRET_KEY)

\* the words of a header value: a plain word, a JWT, or white space
Word(s) == [kind |-> "word", text |-> s, tok |-> NoToken]
Jwt(t) == [kind |-> "jwt", text |-> "<jwt>", tok |-> t]
SP == [kind |-> "sp", text |-> " ", tok |-> NoToken]

\* as jwt_decode, with the expiry not verified
jwt_decode_NoExp(word, key) ==
    IF word.kind # "jwt" THEN [ok |-> FALSE, payload |-> NoToken]
    ELSE IF word.tok.key # key THEN [ok |-> FALSE, payload |-> NoToken]
    ELSE [ok |-> TRUE, payload |-> word.tok]

\* jwt.decode(token, SECRET_KEY, algorithms=[ALGORITHM]): JWTError on a string
\* that is no JWT, on a signature by another key, and on exp < now
jwt_decode(word, key) ==
    IF word.kind # "jwt" THEN [ok |-> FALSE, payload |-> NoToken]
    ELSE IF word.tok.key # key THEN [ok |-> FALSE, payload |-> NoToken]
    ELSE IF word.tok.exp < now THEN [ok |-> FALSE, payload |-> NoToken]
    ELSE [ok |-> TRUE, payload |-> word.tok]

-----------------------------------------------------------------------------
(* Requests and responses *)

UserCreate(username, password) == [username |-> username, password |-> password]

\* a datetime: its wall-clock reading and, when aware, its utcoffset
Naive(wall) == [wall |-> wall, aware |-> FALSE, offset |-> 0]
Aware(wall, offset) == [wall |-> wall, aware |-> TRUE, offset |-> offset]
NoDate == [wall |-> 0, aware |-> FALSE, offset |-> -1]

TransactionCreate(title, amount, type, category, date) ==
    [title |-> title, amount |-> amount, type |-> type, category |-> category,
     date |-> date]

\* a header is [given, chars]: absent (None), or the string chars
Header(chars) == [given |-> TRUE, chars |-> chars]
NoHeader == [given |-> FALSE, chars |-> <<>>]

\* a request: the route, the Authorization header, and the route's arguments
NoRequest ==
    [route |-> "", authorization |-> NoHeader, user |-> UserCreate(None, None),
     tx |-> TransactionCreate(None, 0, None, None, NoDate), tx_id |-> 0]
PostRegister(user) == [NoRequest EXCEPT !.route = "/register", !.user = user]
PostLogin(payload) == [NoRequest EXCEPT !.route = "/login", !.user = payload]
PostTxAdd(tx, authorization) ==
    [NoRequest EXCEPT !.route = "/tx/add", !.authorization = authorization, !.tx = tx]
GetTransactions(authorization) ==
    [NoRequest EXCEPT !.route = "/transactions", !.authorization = authorization]
DeleteTransaction(tx_id, authorization) ==
    [NoRequest EXCEPT !.route = "/delete-transaction", !.authorization = authorization,
                      !.tx_id = tx_id]
GetSummary(authorization) ==
    [NoRequest EXCEPT !.route = "/summary", !.authorization = authorization]
GetExportCsv(authorization) ==
    [NoRequest EXCEPT !.route = "/export-csv", !.authorization = authorization]

\* a response: the function that produced it, the status, and either the
\* detail of the HTTPException raised or the body returned
NoBody == <<>>

Response(by, status, body) ==
    [by |-> by, status |-> status, detail |-> "", body |-> body]

HTTPException(by, status, detail) ==
    [by |-> by, status |-> status, detail |-> detail, body |-> NoBody]

\* an exception nothing catches
ServerError(by) == HTTPException(by, 500, "Internal Server Error")

Answer(req, resp) == [req |-> req, resp |-> resp]

-----------------------------------------------------------------------------
(* Auth dependency *)

\* what the helpers give: the user, or the HTTPException raised
AuthOk(user) == [ok |-> TRUE, user |-> user, raised |-> HTTPException("", 0, "")]
AuthFail(exc) == [ok |-> FALSE, user |-> NoUser, raised |-> exc]

credentials_exception ==
    AuthFail(HTTPException("get_current_user_from_token", 401,
                           "Could not validate credentials"))

\* as get_current_user_from_token, with a message of its own for an unknown user
get_current_user_from_token_Telling(token) ==
    LET d == jwt_decode(token, SECRET_KEY)
        username == d.payload.sub
        user == UserByName(username)
    IN IF ~d.ok THEN credentials_exception
       ELSE IF username = None \/ username = "" THEN credentials_exception
       ELSE IF user = NoUser
       THEN AuthFail(HTTPException("get_current_user_from_token", 401, "User not found"))
       ELSE AuthOk(user)

get_current_user_from_token(token) ==
    LET d == jwt_decode(token, SECRET_KEY)
        username == d.payload.sub
        user == UserByName(username)
    IN IF ~d.ok THEN credentials_exception
       ELSE IF username = None \/ username = "" THEN credentials_exception
       ELSE IF user = NoUser THEN credentials_exception
       ELSE AuthOk(user)

\* str.split(): the words between runs of white space
split(chars) == SelectSeq(chars, LAMBDA c : c.kind # "sp")

\* str.lower() on the scheme words used here
lower(s) ==
    CASE s = "Bearer" -> "bearer"
      [] s = "BEARER" -> "bearer"
      [] s = "Basic" -> "basic"
      [] s = "Income" -> "income"
      [] OTHER -> s

require_user_from_header(authorization_header) ==
    LET parts == split(authorization_header.chars)
    IN IF ~authorization_header.given \/ authorization_header.chars = <<>>
       THEN AuthFail(HTTPException("require_user_from_header", 401,
                                   "Authorization header missing"))
       ELSE IF Len(parts) # 2 \/ lower(parts[1].text) # "bearer"
       THEN AuthFail(HTTPException("require_user_from_header", 401,
                                   "Invalid auth header"))
       ELSE get_current_user_from_token(parts[2])

-----------------------------------------------------------------------------
(* Routes *)

Idle(p) == pc[p] = "idle"
\* the locals a handler keeps between its query and its commit
NoLoc == [req |-> NoRequest, hashed |-> None]

Init ==
    /\ users = {}
    /\ txs = {}
    /\ stamp = [id \in {} |-> 0]
    /\ now = 0
    /\ held = NoToken
    /\ pc = [p \in Procs |-> "idle"]
    /\ loc = [p \in Procs |-> NoLoc]
    /\ last = Answer(NoRequest, Response("", 0, NoBody))

\* as register, without the query for an existing user
register_NoLookup(p, user) ==
    /\ Idle(p)
    /\ pc' = [pc EXCEPT ![p] = "register_commit"]
    /\ loc' = [loc EXCEPT ![p] = [req |-> PostRegister(user),
                                  hashed |-> get_password_hash(user.password)]]
    /\ UNCHANGED <<users, txs, stamp, now, held, last>>

(* POST /register, up to the insert *)
register(p, user) ==
    /\ Idle(p)
    /\ IF UserByName(user.username) # NoUser
       THEN /\ last' = Answer(PostRegister(user),
                              HTTPException("register", 400, "Username already exists"))
            /\ UNCHANGED <<pc, loc>>
       ELSE /\ pc' = [pc EXCEPT ![p] = "register_commit"]
            /\ loc' = [loc EXCEPT ![p] = [req |-> PostRegister(user),
                                          hashed |-> get_password_hash(user.password)]]
            /\ UNCHANGED last
    /\ UNCHANGED <<users, txs, stamp, now, held>>

(* POST /register: db.add, db.commit, db.refresh, return.  The insert fails on
   the unique constraint (IntegrityError, which nothing catches: 500). *)
register_commit(p) ==
    /\ pc[p] = "register_commit"
    /\ LET username == loc[p].req.user.username
           db_user == UserDB(NextRowId(users), username, loc[p].hashed)
       IN IF UsernameUnique(users, username)
          THEN /\ users' = users \cup {db_user}
               /\ last' = Answer(loc[p].req,
                                 Response("register", 201, <<db_user.id, db_user.username>>))
          ELSE /\ UNCHANGED users
               /\ last' = Answer(loc[p].req, ServerError("register"))
    /\ pc' = [pc EXCEPT ![p] = "idle"]
    /\ loc' = [loc EXCEPT ![p] = NoLoc]
    /\ UNCHANGED <<txs, stamp, now, held>>

\* as login, telling an unknown username from a wrong password
login_Revealing(p, payload, keep) ==
    LET user == UserByName(payload.username)
        token == create_access_token([sub |-> user.username])
    IN /\ Idle(p)
       /\ IF user = NoUser
          THEN /\ last' = Answer(PostLogin(payload),
                                 HTTPException("login", 401, "Unknown username"))
               /\ UNCHANGED held
          ELSE IF ~verify_password(payload.password, user.hashed_password)
          THEN /\ last' = Answer(PostLogin(payload),
                                 HTTPException("login", 401, "Invalid credentials"))
               /\ UNCHANGED held
          ELSE /\ last' = Answer(PostLogin(payload),
                                 Response("login", 200, <<token, "bearer">>))
               /\ held' = IF keep THEN token ELSE held
       /\ UNCHANGED <<users, txs, stamp, now, pc, loc>>

(* POST /login: one query, then the token; keep: the client keeps the token *)
login(p, payload, keep) ==
    LET user == UserByName(payload.username)
        token == create_access_token([sub |-> user.username])
    IN /\ Idle(p)
       /\ IF user = NoUser \/ ~verify_password(payload.password, user.hashed_password)
          THEN /\ last' = Answer(PostLogin(payload),
                                 HTTPException("login", 401, "Invalid credentials"))
               /\ UNCHANGED held
          ELSE /\ last' = Answer(PostLogin(payload),
                                 Response("login", 200, <<token, "bearer">>))
               /\ held' = IF keep THEN token ELSE held
       /\ UNCHANGED <<users, txs, stamp, now, pc, loc>>

\* datetime.now(IST)
now_IST == Aware(now + IST, IST)

\* the instant an offset-carrying datetime stands for, in UTC seconds
Instant(dt) == dt.wall - dt.offset

\* SQLite has no offset-carrying type: the DateTime column keeps the wall clock
SqliteDateTime(dt) == dt.wall

\* response_model=TransactionResponse: the row without its owner
TransactionResponse(r) ==
    [id |-> r.id, title |-> r.title, amount |-> r.amount, type |-> r.type,
     category |-> r.category, date |-> r.date]

(* POST /tx/add *)
add_transaction_protected(p, tx, authorization) ==
    LET auth == require_user_from_header(authorization)
        tx_date == IF tx.date = NoDate THEN now_IST
                   ELSE IF ~tx.date.aware THEN Aware(tx.date.wall, IST)
                   ELSE tx.date
        db_tx == TransactionDB(NextRowId(txs), tx.title, tx.amount, tx.type,
                               tx.category, SqliteDateTime(tx_date), auth.user.id)
    IN /\ Idle(p)
       /\ IF ~auth.ok
          THEN /\ last' = Answer(PostTxAdd(tx, authorization), auth.raised)
               /\ UNCHANGED <<txs, stamp>>
          ELSE /\ db_tx.id <= MaxTx
               /\ txs' = txs \cup {db_tx}
               /\ stamp' = [id \in DOMAIN stamp \cup {db_tx.id} |->
                              IF id = db_tx.id THEN Instant(tx_date) ELSE stamp[id]]
               /\ last' = Answer(PostTxAdd(tx, authorization),
                                 Response("add_transaction_protected", 200,
                                          <<TransactionResponse(db_tx)>>))
       /\ UNCHANGED <<users, now, held, pc, loc>>

\* filter(TransactionDB.owner_id == user.id)
OwnedBy(user_id) == {r \in txs : r.owner_id = user_id}

\* order_by(TransactionDB.date.desc()).all(); equal dates come in rowid order
RECURSIVE OrderByDateDesc(_)
OrderByDateDesc(rows) ==
    IF rows = {} THEN <<>>
    ELSE LET r == CHOOSE x \in rows : \A y \in rows :
                      \/ x.date > y.date
                      \/ x.date = y.date /\ x.id <= y.id
         IN <<r>> \o OrderByDateDesc(rows \ {r})

(* GET /transactions *)
get_transactions_protected(p, authorization) ==
    LET auth == require_user_from_header(authorization)
        rows == OrderByDateDesc(OwnedBy(auth.user.id))
    IN /\ Idle(p)
       /\ IF ~auth.ok
          THEN last' = Answer(GetTransactions(authorization), auth.raised)
          ELSE last' = Answer(GetTransactions(authorization),
                              Response("get_transactions_protected", 200,
                                       [i \in 1..Len(rows) |->
                                          TransactionResponse(rows[i])]))
       /\ UNCHANGED <<users, txs, stamp, now, held, pc, loc>>

\* as TxOfOwner, filtering on the id alone
TxOfOwner_AnyOwner(tx_id, user_id) == {r \in txs : r.id = tx_id}

\* filter(TransactionDB.id == tx_id, TransactionDB.owner_id == user.id)
TxOfOwner(tx_id, user_id) == {r \in txs : r.id = tx_id /\ r.owner_id = user_id}

(* DELETE /delete-transaction/{tx_id}, up to the delete *)
delete_transaction_protected(p, tx_id, authorization) ==
    LET auth == require_user_from_header(authorization)
        tx == TxOfOwner(tx_id, auth.user.id)
    IN /\ Idle(p)
       /\ IF ~auth.ok
          THEN /\ last' = Answer(DeleteTransaction(tx_id, authorization), auth.raised)
               /\ UNCHANGED <<pc, loc>>
          ELSE IF tx = {}
          THEN /\ last' = Answer(DeleteTransaction(tx_id, authorization),
                                 HTTPException("delete_transaction_protected", 404,
                                               "Transaction not found"))
               /\ UNCHANGED <<pc, loc>>
          ELSE /\ pc' = [pc EXCEPT ![p] = "delete_commit"]
               /\ loc' = [loc EXCEPT ![p] = [req |-> DeleteTransaction(tx_id, authorization),
                                             hashed |-> None]]
               /\ UNCHANGED last
       /\ UNCHANGED <<users, txs, stamp, now, held>>

(* DELETE /delete-transaction/{tx_id}: db.delete(tx), db.commit(), return.
   The flush emits DELETE FROM transactions WHERE id = <tx.id>; a row count of
   0 is a warning of the mapper, not an error. *)
delete_commit(p) ==
    /\ pc[p] = "delete_commit"
    /\ txs' = {r \in txs : r.id # loc[p].req.tx_id}
    /\ stamp' = [id \in DOMAIN stamp \ {loc[p].req.tx_id} |-> stamp[id]]
    /\ last' = Answer(loc[p].req,
                      Response("delete_transaction_protected", 200,
                               <<"success", loc[p].req.tx_id>>))
    /\ pc' = [pc EXCEPT ![p] = "idle"]
    /\ loc' = [loc EXCEPT ![p] = NoLoc]
    /\ UNCHANGED <<users, now, held>>

\* sum(t.amount for t in rows)
RECURSIVE sum(_)
sum(rows) ==
    IF rows = {} THEN 0
    ELSE LET r == CHOOSE x \in rows : TRUE
         IN r.amount + sum(rows \ {r})

\* round(x, 2) on thousandths: to the nearest multiple of 10, ties to even
round2(x) ==
    LET q == x \div 10
        r == x % 10
    IN IF r > 5 \/ (r = 5 /\ q % 2 = 1) THEN 10 * (q + 1) ELSE 10 * q

SummaryResponse(total_income, total_expense, net_balance) ==
    [total_income |-> total_income, total_expense |-> total_expense,
     net_balance |-> net_balance]

\* as OfType, comparing the type whatever its case
OfType_AnyCase(rows, type) == {t \in rows : lower(t.type) = type}

\* the transactions a summary counts under the given type
OfType(rows, type) == {t \in rows : t.type = type}

(* GET /summary *)
summary_protected(p, authorization) ==
    LET auth == require_user_from_header(authorization)
        transactions == OwnedBy(auth.user.id)
        total_income == round2(sum(OfType(transactions, "income")))
        total_expense == round2(sum(OfType(transactions, "expense")))
    IN /\ Idle(p)
       /\ IF ~auth.ok
          THEN last' = Answer(GetSummary(authorization), auth.raised)
          ELSE last' = Answer(GetSummary(authorization),
                              Response("summary_protected", 200,
                                       <<SummaryResponse(total_income, total_expense,
                                             round2(total_income - total_expense))>>))
       /\ UNCHANGED <<users, txs, stamp, now, held, pc, loc>>

\* r.category or ""
category_or_empty(category) == IF category = None THEN "" ELSE category

\* what csv.writer writes for a row: every field as its text
csv_row(r) ==
    <<ToString(r.id), r.title, ToString(r.amount), r.type,
      category_or_empty(r.category), ToString(r.date)>>

\* the chunks the generator yields: the header row, then a row per transaction
iter_csv(rows) ==
    <<(<<"id", "title", "amount", "type", "category", "date">>)>> \o
    [i \in 1..Len(rows) |-> csv_row(rows[i])]

(* GET /export-csv *)
export_csv_protected(p, authorization) ==
    LET auth == require_user_from_header(authorization)
        rows == OrderByDateDesc(OwnedBy(auth.user.id))
    IN /\ Idle(p)
       /\ IF ~auth.ok
          THEN last' = Answer(GetExportCsv(authorization), auth.raised)
          ELSE last' = Answer(GetExportCsv(authorization),
                              Response("export_csv_protected", 200, iter_csv(rows)))
       /\ UNCHANGED <<users, txs, stamp, now, held, pc, loc>>

(* the clock *)
Tick ==
    /\ now < MaxTicks * TickSeconds
    /\ now' = now + TickSeconds
    /\ UNCHANGED <<users, txs, stamp, held, pc, loc, last>>

-----------------------------------------------------------------------------
(* The requests clients send *)

\* tokens a client may present: the one it holds, and made-up ones
SubInputs == Usernames \cup {None}
ShortLived(sub) == jwt_encode([sub |-> sub, exp |-> TickSeconds], SECRET_KEY)
LongLived(sub) == jwt_encode([sub |-> sub, exp |-> MaxTicks * TickSeconds], SECRET_KEY)
SignedTokens == {ShortLived(s) : s \in SubInputs}
ForgedTokens == {jwt_encode([sub |-> "alice", exp |-> MaxTicks * TickSeconds], OTHER_KEY)}

Bearer(t) == Header(<<Word("Bearer"), SP, Jwt(t)>>)

\* no header, and ""
MissingHeaders == {NoHeader, Header(<<>>)}
\* " " ; "Bearer" ; "Basic <jwt>" ; "Bearer <jwt> x"
MisshapenHeaders ==
    {Header(<<SP>>),
     Header(<<Word("Bearer")>>),
     Header(<<Word("Basic"), SP, Jwt(LongLived("alice"))>>),
     Header(<<Word("Bearer"), SP, Jwt(LongLived("alice")), SP, Word("x")>>)}
\* "Bearer garbage"
GarbageHeaders == {Header(<<Word("Bearer"), SP, Word("garbage")>>)}
\* "BEARER  <jwt>"
LooseHeaders == {Header(<<Word("BEARER"), SP, SP, Jwt(LongLived("alice"))>>)}

\* stands for the header of a client presenting the token it kept
Kept == Header(<<Word("<kept>")>>)
\* the header a client sends
Sent(h) == IF h = Kept THEN Bearer(held) ELSE h

HeaderInputs ==
    MissingHeaders \cup MisshapenHeaders \cup GarbageHeaders \cup LooseHeaders
    \cup {Bearer(t) : t \in SignedTokens \cup ForgedTokens} \cup {Kept}

\* the headers of clients with a token that does not expire
OwnerHeaders == {Bearer(LongLived("alice")), Bearer(LongLived("bob"))}
\* those, and no header
FewHeaders == {NoHeader} \cup OwnerHeaders

NaiveDate == TickSeconds + IST
AwareDate == NaiveDate - 60 * 60
Salary == TransactionCreate("salary", 100000, "income", None, NoDate)
Rent == TransactionCreate("rent", 3050, "expense", "home", Naive(NaiveDate))
Gift == TransactionCreate("gift", 20000, "Income", "", Aware(AwareDate, 0))
TxInputs == {Salary, Rent, Gift}

TxIdInputs == 1..(MaxTx + 1)

\* one step of worker p, on inputs from the given sets
Step(p, names, keeps, bodies, headers) ==
    \/ \E u \in names, pw \in RegPasswords : register(p, UserCreate(u, pw))
    \/ register_commit(p)
    \/ \E u \in names, pw \in LoginPasswords, keep \in keeps :
          login(p, UserCreate(u, pw), keep)
    \/ \E tx \in bodies, h \in headers : add_transaction_protected(p, tx, Sent(h))
    \/ \E h \in headers : get_transactions_protected(p, Sent(h))
    \/ \E id \in TxIdInputs, h \in headers :
          delete_transaction_protected(p, id, Sent(h))
    \/ delete_commit(p)
    \/ \E h \in headers : summary_protected(p, Sent(h))
    \/ \E h \in headers : export_csv_protected(p, Sent(h))

\* a single worker: it answers a request before it takes the next
OneWorker == {CHOOSE p \in Procs : TRUE}

(* Requests served concurrently by the workers *)
Next ==
    \/ \E p \in Procs : Step(p, {"alice", "bob"}, {FALSE}, {Rent}, FewHeaders)
    \/ Tick

Spec == Init /\ [][Next]_vars

(* Requests served one after the other: every credential and header *)
NextAuth ==
    \/ \E p \in OneWorker : Step(p, {"", "alice"}, BOOLEAN, {Rent}, HeaderInputs)
    \/ Tick

SpecAuth == Init /\ [][NextAuth]_vars

(* Requests served one after the other: every kind of transaction *)
NextLedger ==
    \/ \E p \in OneWorker : Step(p, {"alice", "bob"}, {FALSE}, TxInputs, OwnerHeaders)
    \/ Tick

SpecLedger == Init /\ [][NextLedger]_vars

-----------------------------------------------------------------------------
(* Claims *)

ProtectedRoutes ==
    {"/tx/add", "/transactions", "/delete-transaction", "/summary", "/export-csv"}

\* the usernames in the store
StoredNames == {u.username : u \in users}

\* the header is missing or is not "Bearer <token>"
BadShape(h) == h \in MissingHeaders \cup MisshapenHeaders

\* the word a well-shaped header carries after its scheme
Carried(h) == h.chars[Len(h.chars)]

\* the token is no JWT, is signed by another key, is past its expiry, or names
\* no stored user
BadToken(h) ==
    /\ ~BadShape(h)
    /\ \/ Carried(h).kind # "jwt"
       \/ Carried(h).tok.key # SECRET_KEY
       \/ Carried(h).tok.exp < now
       \/ Carried(h).tok.sub \notin StoredNames

\* the stored user a header's token names
Requester(h) == CHOOSE u \in users : u.username = Carried(h).tok.sub

\* the header carries a token of the server's, not expired, naming a stored user
GoodToken(h) ==
    /\ ~BadShape(h) /\ ~BadToken(h)
    /\ Carried(h).tok.sub # ""

\* C1: with requests served one after the other, POST /register of a username
\* not in the store goes on to insert, returns 201 and adds exactly one user,
\* of that username; of a username in the store it returns 400 and leaves the
\* users as they are.
C1_RegisterOnceThenConflict ==
    [][\A p \in Procs :
          /\ (pc[p] = "idle" /\ pc'[p] = "register_commit")
             => loc'[p].req.user.username \notin StoredNames
          /\ (pc[p] = "register_commit" /\ pc'[p] = "idle")
             => /\ last'.resp.status = 201
                /\ \E new \in users' \ users :
                      /\ users' = users \cup {new}
                      /\ new.username = loc[p].req.user.username
          /\ (last' # last /\ pc' = pc /\ last'.req.route = "/register")
             => /\ last'.resp.status = 400
                /\ last'.req.user.username \in StoredNames
                /\ users' = users]_vars

\* a second registration of a stored username was refused
C1_Witness ==
    /\ last.req.route = "/register"
    /\ last.resp.status = 400
    /\ last.req.user.username \in StoredNames

\* C2: in every reachable state, under every interleaving of the query and the
\* insert of concurrent registrations, no two stored users share a username.
C2_UsernamesUnique ==
    \A u1 \in users, u2 \in users : u1.username = u2.username => u1 = u2

\* two registrations of one username raced, and the later insert was rejected
C2_Witness ==
    /\ last.req.route = "/register"
    /\ last.resp.status = 500
    /\ last.req.user.username \in StoredNames

\* C3: a request to a protected endpoint whose Authorization header is missing
\* or misshapen, or whose token is malformed, wrongly signed, expired or names
\* no stored user, is answered 401 and changes neither users nor transactions;
\* a missing or misshapen header is refused by the header check itself, whatever
\* token it carries.
C3_BadAuthIs401 ==
    [][/\ (/\ last' # last /\ pc' = pc
           /\ last'.req.route \in ProtectedRoutes
           /\ BadShape(last'.req.authorization) \/ BadToken(last'.req.authorization))
          => /\ last'.resp.status = 401
             /\ UNCHANGED <<users, txs>>
             /\ BadShape(last'.req.authorization)
                => last'.resp.by = "require_user_from_header"
       /\ \A p \in Procs :
             (pc[p] = "idle" /\ pc'[p] = "delete_commit")
             => ~(BadShape(loc'[p].req.authorization) \/ BadToken(loc'[p].req.authorization))
      ]_vars

\* a token with a valid signature was refused because its expiry had passed
C3_Witness ==
    /\ last.req.route \in ProtectedRoutes
    /\ last.req.authorization = Bearer(ShortLived("alice"))
    /\ "alice" \in StoredNames
    /\ now > TickSeconds
    /\ last.resp.status = 401

NotFound == HTTPException("delete_transaction_protected", 404, "Transaction not found")

C5_AtMostOneDeleteSucceeds ==
    [][\A p \in Procs :
          (/\ pc[p] = "delete_commit" /\ pc'[p] = "idle"
           /\ last.req = loc[p].req
           /\ last.resp.status = 200
           /\ \A t \in txs : t.id # loc[p].req.tx_id)
          => last'.resp.status = 404]_vars

InvalidCredentials == HTTPException("login", 401, "Invalid credentials")

\* C6: POST /login with a username not in the store and POST /login with a
\* wrong password for a stored username get the same response, 401 with the
\* same detail, and neither changes the store.
C6_LoginFailuresAlike ==
    [][(/\ last' # last
        /\ last'.req.route = "/login"
        /\ \/ last'.req.user.username \notin StoredNames
           \/ \E u \in users :
                 /\ u.username = last'.req.user.username
                 /\ u.hashed_password # get_password_hash(last'.req.user.password))
       => /\ last'.resp = InvalidCredentials
          /\ UNCHANGED <<users, txs, held>>]_vars

\* a login with a wrong password for a stored username was refused
C6_Witness ==
    /\ last.req.route = "/login"
    /\ last.resp = InvalidCredentials
    /\ last.req.user.username \in StoredNames

\* C7 as stated: every 401 carries one and the same detail message, so any two
\* 401 responses in a row carry the same.
C7_OneMessage ==
    [][(last.resp.status = 401 /\ last'.resp.status = 401)
       => last'.resp.detail = last.resp.detail]_vars

\* the detail message of the stage at which a request fails authentication
StageMessage(req) ==
    IF req.route = "/login" THEN "Invalid credentials"
    ELSE IF req.authorization \in MissingHeaders THEN "Authorization header missing"
    ELSE IF req.authorization \in MisshapenHeaders THEN "Invalid auth header"
    ELSE "Could not validate credentials"

\* C7 as amended: a request with a missing or misshapen header is answered 401,
\* and the detail of every 401 is the message of the stage that refused the
\* request (login, header presence, header shape, token), the same for every
\* cause within that stage.
C7_MessagePerStage ==
    /\ (last.req.route \in ProtectedRoutes /\ BadShape(last.req.authorization))
       => last.resp.status = 401
    /\ last.resp.status = 401 => last.resp.detail = StageMessage(last.req)

\* a signed, unexpired token naming no stored user got the token stage's message
C7_Witness ==
    /\ last.resp.status = 401
    /\ last.req.authorization = Bearer(ShortLived("bob"))
    /\ now <= TickSeconds
    /\ last.resp.detail = "Could not validate credentials"

\* C8: a protected request carrying the token a successful login returned is
\* not refused before the token's expiry (a POST /tx/add then adds a transaction
\* of the user the token names), and is refused with 401 after it.
C8_LoginTokenAuthorizes ==
    [][(/\ last' # last /\ pc' = pc
        /\ last'.req.route \in ProtectedRoutes
        /\ held # NoToken
        /\ last'.req.authorization = Bearer(held))
       => /\ now < held.exp
             => /\ last'.resp.status # 401
                /\ last'.req.route = "/tx/add"
                   => \E t \in txs' \ txs, u \in users :
                         u.username = held.sub /\ t.owner_id = u.id
          /\ now > held.exp => last'.resp.status = 401]_vars

\* the transactions of the user a header's token names
Mine(h) == {t \in txs : t.owner_id = Requester(h).id}

\* the row of the CSV export for a transaction
ExportRow(t) ==
    <<ToString(t.id), t.title, ToString(t.amount), t.type,
      IF t.category = None THEN "" ELSE t.category, ToString(t.date)>>

\* C9: GET /transactions answers with exactly the requesting user's current
\* transactions, each once, the latest timestamp first; GET /export-csv answers
\* with the row id,title,amount,type,category,date and then one row for each of
\* them, the latest timestamp first, the category empty when the transaction has
\* none. A transaction's timestamp is the instant it was added for: the one the
\* caller gave, read at its offset or at UTC+5:30 without one, else the time of
\* the request.
C9_ListAndExport ==
    LET h == last.req.authorization
        body == last.resp.body
    IN /\ (last.req.route = "/transactions" /\ last.resp.status = 200)
          => /\ Len(body) = Cardinality(Mine(h))
             /\ \A t \in Mine(h) : \E i \in 1..Len(body) :
                   body[i] = [id |-> t.id, title |-> t.title, amount |-> t.amount,
                              type |-> t.type, category |-> t.category, date |-> t.date]
             /\ \A i \in 1..Len(body), j \in 1..Len(body) :
                   i < j => stamp[body[i].id] >= stamp[body[j].id]
       /\ (last.req.route = "/export-csv" /\ last.resp.status = 200)
          => /\ Len(body) = 1 + Cardinality(Mine(h))
             /\ body[1] = <<"id", "title", "amount", "type", "category", "date">>
             /\ \A t \in Mine(h) : \E i \in 2..Len(body) : body[i] = ExportRow(t)
             /\ \A i \in 2..Len(body), j \in 2..Len(body) :
                   i < j => \E t1 \in Mine(h), t2 \in Mine(h) :
                               /\ body[i] = ExportRow(t1)
                               /\ body[j] = ExportRow(t2)
                               /\ stamp[t1.id] >= stamp[t2.id]

RECURSIVE Total(_)
Total(rows) ==
    IF rows = {} THEN 0
    ELSE LET r == CHOOSE x \in rows : TRUE
         IN r.amount + Total(rows \ {r})

\* C10: with amounts of two decimals, GET /summary answers with the sum of the
\* requesting user's current transactions of type "income", the sum of those of
\* type "expense", and the first less the second; other users' transactions
\* and transactions of any other type count nowhere.
C10_Summary ==
    LET mine == Mine(last.req.authorization)
        income == Total({t \in mine : t.type = "income"})
        expense == Total({t \in mine : t.type = "expense"})
    IN (/\ last.req.route = "/summary" /\ last.resp.status = 200
        /\ \A t \in mine : t.amount % 10 = 0)
       => last.resp.body =
             <<[total_income |-> income, total_expense |-> expense,
                net_balance |-> income - expense]>>

\* a summary for a user with an income and a transaction of another type,
\* the latter counted nowhere
C10_Witness ==
    /\ last.req.route = "/summary"
    /\ last.resp.status = 200
    /\ \E t1 \in Mine(last.req.authorization), t2 \in Mine(last.req.authorization) :
          /\ t1.type = "income" /\ t2.type = "Income"
          /\ last.resp.body[1].total_income = t1.amount
====
